---- MODULE Spec2Model ----
(***************************************************************************)
(* Model of db/plugins.py: slug assignment, record merging, matching of    *)
(* scraped data against the plugins table, ingestion, tag updates and the  *)
(* search index.                                                           *)
(*                                                                         *)
(* Python values are tagged tuples so that values of different Python      *)
(* types can be compared: None, ints, strings (sequences of one-character  *)
(* strings), lists and the RequiredProperty marker object.  A dict is a    *)
(* function whose DOMAIN is its key set.  The plugins table is a function  *)
(* from primary key (the slug value) to the stored document.               *)
(***************************************************************************)
EXTENDS Integers, Sequences, FiniteSets, TLC

VARIABLES
    store,      \* the plugins table: slug value -> stored document
    log,        \* what logging.error has emitted, oldest first
    assigned,   \* the slugs _generate_unique_slug has returned
    last,       \* the most recent call: its arguments and what it did
    pc,         \* position inside the call in progress: per caller inside
                \* add_scraped_data (interleaved runs), inside update_plugin
                \* (object runs)
    loc,        \* the locals of the call in progress
    old_plugin, \* update_plugin's first argument (merge runs)
    new_plugin, \* update_plugin's second argument (merge runs)
    merged,     \* update_plugin's return value (merge runs)
    heap,       \* the dict objects update_plugin works on: object id -> contents
    index,      \* what get_search_index returned or raised (search runs)
    tag_counts  \* the counters db.tags keeps: tag -> count (tag runs)

vars == <<store, log, assigned, last, pc, loc, old_plugin, new_plugin, merged,
          heap, index, tag_counts>>

-----------------------------------------------------------------------------
(* Python values *)

None == <<"none">>
PyInt(n) == <<"int", n>>
PyStr(s) == <<"str", s>>
PyList(l) == <<"list", l>>

\* bool(v): None, 0, '' and [] are false, everything else true
Truthy(v) ==
    CASE v[1] = "none" -> FALSE
      [] v[1] = "int" -> v[2] # 0
      [] v[1] = "str" -> v[2] # <<>>
      [] v[1] = "list" -> v[2] # <<>>
      [] OTHER -> TRUE

\* d.get(k): None for a missing key
Get(d, k) == IF k \in DOMAIN d THEN d[k] ELSE None

\* d.get(k, dflt): dflt only for a missing key (a stored None is returned)
GetDefault(d, k, dflt) == IF k \in DOMAIN d THEN d[k] ELSE dflt

\* a or b
PyOr(a, b) == IF Truthy(a) THEN a ELSE b

\* a faulty variant of PyGreater: a >= b
PyGreater_OrEqual(a, b) ==
    CASE b[1] = "none" -> TRUE
      [] a[1] = "none" -> FALSE
      [] OTHER -> a[2] >= b[2]

\* a > b for ints and None under Python 2 ordering (None sorts below any int)
PyGreater(a, b) ==
    CASE a[1] = "none" -> FALSE
      [] b[1] = "none" -> TRUE
      [] OTHER -> a[2] > b[2]

\* dict(a, **b): a's items with b's items laid over them
DictUpdate(a, b) ==
    [k \in (DOMAIN a) \cup (DOMAIN b) |-> IF k \in DOMAIN b THEN b[k] ELSE a[k]]

\* the dict d with d[k] = v assigned
DictSet(d, k, v) ==
    [j \in (DOMAIN d) \cup {k} |-> IF j = k THEN v ELSE d[j]]

EmptyDict == [k \in {} |-> None]

-----------------------------------------------------------------------------
(* slugify *)

Lower(c) ==
    CASE c = "A" -> "a"
      [] c = "B" -> "b"
      [] c = "R" -> "r"
      [] c = "V" -> "v"
      [] OTHER -> c

Alnum == {"a","b","c","d","e","f","g","h","i","j","k","l","m","n","o","p","q",
          "r","s","t","u","v","w","x","y","z",
          "0","1","2","3","4","5","6","7","8","9"}

\* lowercase every character and turn each character that is not a letter or a
\* digit into the separator
RECURSIVE SlugChars(_)
SlugChars(s) ==
    IF s = <<>> THEN <<>>
    ELSE LET c == Lower(Head(s))
         IN  <<IF c \in Alnum THEN c ELSE "-">> \o SlugChars(Tail(s))

\* a run of separators becomes one separator
RECURSIVE Collapse(_)
Collapse(s) ==
    IF Len(s) < 2 THEN s
    ELSE IF s[1] = "-" /\ s[2] = "-" THEN Collapse(Tail(s))
    ELSE <<s[1]>> \o Collapse(Tail(s))

\* separators at either end are dropped (after Collapse there is at most one)
Strip(s) ==
    LET a == IF s # <<>> /\ s[1] = "-" THEN Tail(s) ELSE s
    IN  IF a # <<>> /\ a[Len(a)] = "-" THEN SubSeq(a, 1, Len(a) - 1) ELSE a

\* slugify as python-slugify computes it for these characters
SlugifyOf(s) == Strip(Collapse(SlugChars(s)))

-----------------------------------------------------------------------------
(* The row schema *)

RequiredProperty == <<"object", "RequiredProperty">>

ROW_SCHEMA ==
    [ slug |-> RequiredProperty,
      normalized_name |-> PyStr(<<>>),
      tags |-> PyList(<<>>),
      created_at |-> PyInt(0),
      updated_at |-> PyInt(0),
      vimorg_id |-> None,
      vimorg_name |-> PyStr(<<>>),
      vimorg_author |-> PyStr(<<>>),
      vimorg_url |-> PyStr(<<>>),
      vimorg_type |-> PyStr(<<>>),
      vimorg_rating |-> PyInt(0),
      vimorg_num_raters |-> PyInt(0),
      vimorg_downloads |-> PyInt(0),
      vimorg_short_desc |-> PyStr(<<>>),
      vimorg_long_desc |-> PyStr(<<>>),
      vimorg_install_details |-> PyStr(<<>>),
      github_owner |-> PyStr(<<>>),
      github_repo_name |-> PyStr(<<>>),
      github_stars |-> PyInt(0),
      github_short_desc |-> PyStr(<<>>),
      github_homepage |-> PyStr(<<>>),
      github_readme |-> PyStr(<<>>),
      github_vim_scripts_repo_name |-> PyStr(<<>>),
      github_vim_scripts_stars |-> PyInt(0),
      github_bundles |-> PyInt(0),
      github_vim_scripts_bundles |-> PyInt(0) ]

-----------------------------------------------------------------------------
(* Slug assignment *)

slug_suffixes ==
    << <<"a","l","l","-","t","o","o","-","w","e","l","l">>,
       <<"b","a","c","k","-","t","o","-","d","e","c","e","m","b","e","r">>,
       <<"b","e","t","t","e","r","-","t","h","a","n","-","r","e","v","e","n","g","e">>,
       <<"c","o","m","e","-","b","a","c","k","-","b","e","-","h","e","r","e">>,
       <<"e","n","c","h","a","n","t","e","d">>,
       <<"f","e","a","r","l","e","s","s">>,
       <<"h","o","l","y","-","g","r","o","u","n","d">>,
       <<"l","o","n","g","-","l","i","v","e">>,
       <<"l","o","v","e","-","s","t","o","r","y">>,
       <<"m","i","n","e">>,
       <<"o","u","r","s">>,
       <<"r","e","d">>,
       <<"s","a","f","e","-","a","n","d","-","s","o","u","n","d">>,
       <<"s","p","a","r","k","s","-","f","l","y">>,
       <<"s","t","a","t","e","-","o","f","-","g","r","a","c","e">>,
       <<"s","w","e","e","t","e","r","-","t","h","a","n","-","f","i","c","t","i","o","n">>,
       <<"t","r","e","a","c","h","e","r","o","u","s">>,
       <<"y","o","u","-","b","e","l","o","n","g","-","w","i","t","h","-","m","e">>
    >>

\* the plugin names of the bounded inputs
Name_Rb == <<"R","b">>
Name_rb == <<"r","b">>
Names == {Name_Rb, Name_rb}

\* SlugifyOf evaluated once for every string the bounded inputs make the code
\* slugify; slugify looks the value up and computes it for any other string
SlugifyMemo ==
    [s \in Names \cup {n \o <<"-">> \o slug_suffixes[i] :
                          n \in Names, i \in 1..Len(slug_suffixes)}
        |-> SlugifyOf(s)]

slugify(s) == IF s \in DOMAIN SlugifyMemo THEN SlugifyMemo[s] ELSE SlugifyOf(s)

\* a faulty variant of slug_taken: the lookup never finds a document
slug_taken_Unchecked(slug, st) == FALSE

\* bool(r.table('plugins').get(slug)): a stored document is a non-empty dict
slug_taken(slug, st) == PyStr(slug) \in DOMAIN st

\* plugin.get('vimorg_name') or plugin.get('github_repo_name') or
\* plugin.get('github_vim_scripts_repo_name')
PluginName(plugin) ==
    PyOr(PyOr(Get(plugin, "vimorg_name"), Get(plugin, "github_repo_name")),
         Get(plugin, "github_vim_scripts_repo_name"))

\* slugify('%s-%s' % (name, slug_suffix))
SuffixedSlug(name, i) == slugify(name \o <<"-">> \o slug_suffixes[i])

\* a faulty variant of FreeSuffixes: the loop stops one suffix short of the list's end
FreeSuffixes_SkipsLast(name, st) ==
    {i \in 1..(Len(slug_suffixes) - 1) : ~slug_taken(SuffixedSlug(name, i), st)}

\* The suffixes whose slug is free.  random.shuffle puts the suffixes in any
\* order and the loop returns the first free one, so each free suffix is a
\* possible result and no taken one is.
FreeSuffixes(name, st) ==
    {i \in 1..Len(slug_suffixes) : ~slug_taken(SuffixedSlug(name, i), st)}

Raise(what) == <<"raise", what>>
Return(v) == <<"return", v>>

\* _generate_unique_slug: the set of its possible outcomes against table st
generate_unique_slug(plugin, st) ==
    LET name == PluginName(plugin)
    IN  IF ~Truthy(name) THEN {Raise("AssertionError")}
        ELSE IF ~slug_taken(slugify(name[2]), st) THEN {Return(slugify(name[2]))}
        ELSE IF FreeSuffixes(name[2], st) = {} THEN {Raise("Exception")}
        ELSE {Return(SuffixedSlug(name[2], i)) : i \in FreeSuffixes(name[2], st)}

-----------------------------------------------------------------------------
(* Merging *)

\* a faulty variant of is_more_authoritative: a tie on updated_at is not broken
\* by the stars
is_more_authoritative_NoTieBreak(repo1, repo2) ==
    /\ Truthy(Get(repo1, "github_url"))
    /\ Truthy(Get(repo2, "github_url"))
    /\ repo1["github_url"] # repo2["github_url"]
    /\ PyGreater(GetDefault(repo1, "updated_at", PyInt(0)),
                 GetDefault(repo2, "updated_at", PyInt(0)))

is_more_authoritative(repo1, repo2) ==
    IF /\ Truthy(Get(repo1, "github_url"))
       /\ Truthy(Get(repo2, "github_url"))
       /\ repo1["github_url"] # repo2["github_url"]
    THEN LET u1 == GetDefault(repo1, "updated_at", PyInt(0))
             u2 == GetDefault(repo2, "updated_at", PyInt(0))
         IN  IF PyGreater(u1, u2) THEN TRUE
             ELSE IF u1 = u2
                  THEN PyGreater(GetDefault(repo1, "github_stars", PyInt(0)),
                                 GetDefault(repo2, "github_stars", PyInt(0)))
                  ELSE FALSE
    ELSE FALSE

\* a faulty variant of FilterNone: nothing is filtered out
FilterNone_KeepsNone(dict_b) == dict_b

\* {k: v for k, v in dict_b.iteritems() if v is not None}
FilterNone(dict_b) ==
    [k \in {j \in DOMAIN dict_b : dict_b[j] # None} |-> dict_b[k]]

\* a faulty variant of merge_dict_except_none: the result is built from the
\* filtered dict_b alone
merge_dict_except_none_DropsBase(dict_a, dict_b) == FilterNone(dict_b)

merge_dict_except_none(dict_a, dict_b) == DictUpdate(dict_a, FilterNone(dict_b))

\* max(a, b) and min(a, b): the first argument wins a tie
PyMax(a, b) == IF PyGreater(b, a) THEN b ELSE a
PyMin(a, b) == IF PyGreater(a, b) THEN b ELSE a

\* a faulty variant of Overlay: the arguments of the merge are swapped
Overlay_OldOnTop(old, new) ==
    IF is_more_authoritative(old, new)
    THEN merge_dict_except_none(old, new)
    ELSE merge_dict_except_none(new, old)

\* the field overlay of update_plugin, before the two dates are set
Overlay(old, new) ==
    IF is_more_authoritative(old, new)
    THEN merge_dict_except_none(new, old)
    ELSE merge_dict_except_none(old, new)

\* "Keep the latest updated date."
KeepLatestUpdated(updated, old, new) ==
    IF Truthy(Get(old, "updated_at")) /\ Truthy(Get(new, "updated_at"))
    THEN DictSet(updated, "updated_at", PyMax(old["updated_at"], new["updated_at"]))
    ELSE updated

\* "Keep the earliest created date."
KeepEarliestCreated(updated, old, new) ==
    IF Truthy(Get(old, "created_at")) /\ Truthy(Get(new, "created_at"))
    THEN DictSet(updated, "created_at", PyMin(old["created_at"], new["created_at"]))
    ELSE updated

update_plugin(old, new) ==
    KeepEarliestCreated(KeepLatestUpdated(Overlay(old, new), old, new), old, new)

-----------------------------------------------------------------------------
(* The plugins table and insert *)

\* a faulty variant of table_insert: a stored document is replaced without upsert too
table_insert_Replaces(st, doc, upsert) ==
    [k \in (DOMAIN st) \cup {doc["slug"]} |->
        IF k = doc["slug"] THEN doc ELSE st[k]]

\* r.table('plugins').insert(doc, upsert=...): a document whose primary key is
\* already stored replaces the stored one with upsert=True and is rejected
\* (the table is left as it is) without it
table_insert(st, doc, upsert) ==
    IF doc["slug"] \in DOMAIN st /\ ~upsert
    THEN st
    ELSE [k \in (DOMAIN st) \cup {doc["slug"]} |->
              IF k = doc["slug"] THEN doc ELSE st[k]]

\* r.table('plugins').get_all(vimorg_id, index='vimorg_id')
get_all_vimorg_id(st, vimorg_id) ==
    {st[k] : k \in {j \in DOMAIN st : st[j]["vimorg_id"] = vimorg_id}}

normalized_name_scaffold ==
    PyStr(<<"m","e","r","e","d","i","t","h"," ","g","r","e","y"," ",
            "s","w","i","f","t">>)

\* "FIXME(david): This is scaffolding code."
WithNormalizedName(plugin) ==
    IF ~Truthy(Get(plugin, "normalized_name"))
    THEN DictSet(plugin, "normalized_name", normalized_name_scaffold)
    ELSE plugin

\* what insert writes for a plugin that has its slug
MappedPlugin(plugin) == DictUpdate(ROW_SCHEMA, WithNormalizedName(plugin))

\* the slug step of insert: the possible outcomes, the plugin's own slug when
\* it carries one
SlugOutcomes(plugin, st) ==
    IF ~Truthy(Get(plugin, "slug"))
    THEN generate_unique_slug(plugin, st)
    ELSE {<<"present", plugin["slug"][2]>>}

\* insert(plugin, upsert=...) for one plugin: the set of possible results, each
\* the table afterwards, the slug _generate_unique_slug returned (None when it
\* was not called or raised) and what was raised ("" when nothing was)
insert(plugin, upsert, st) ==
    { IF o[1] = "raise"
      THEN [store |-> st, generated |-> None, raised |-> o[2]]
      ELSE [store |-> table_insert(st,
                         MappedPlugin(DictSet(plugin, "slug", PyStr(o[2]))), upsert),
            generated |-> IF o[1] = "return" THEN PyStr(o[2]) ELSE None,
            raised |-> ""]
      : o \in SlugOutcomes(plugin, st) }

-----------------------------------------------------------------------------
(* Matching and ingestion *)

Rows(S) == <<"rows", S>>

\* the documents with plugin_data's vimorg_id; None (the function falls off its
\* end) when plugin_data has no vimorg_id
find_matching_vimorg_plugins(plugin_data, st) ==
    IF Truthy(Get(plugin_data, "vimorg_id"))
    THEN Rows(get_all_vimorg_id(st, plugin_data["vimorg_id"]))
    ELSE None

\* a faulty variant of MatchCase: any match is taken as the one match
MatchCase_FirstMatch(plugins) ==
    IF plugins = None \/ plugins[2] = {} THEN "NONE" ELSE "ONE"

\* which branch of add_scraped_data runs: "not plugins" holds for None and for
\* the empty list
MatchCase(plugins) ==
    IF plugins = None \/ plugins[2] = {} THEN "NONE"
    ELSE IF Cardinality(plugins[2]) = 1 THEN "ONE"
    ELSE "MANY"

MatchedSlugs(plugins) ==
    IF plugins = None THEN {} ELSE {p["slug"] : p \in plugins[2]}

\* the logging.error call of the last branch
Report(plugins, plugin_data) ==
    [count |-> Cardinality(plugins[2]), data |-> plugin_data,
     slugs |-> MatchedSlugs(plugins)]

\* the write of add_scraped_data once the lookup returned plugins: the set of
\* possible results of the call against table st
AddOutcomes(plugin_data, plugins, st) ==
    CASE MatchCase(plugins) = "NONE" ->
             { [store |-> o.store, generated |-> o.generated, raised |-> o.raised,
                reports |-> <<>>] : o \in insert(plugin_data, FALSE, st) }
      [] MatchCase(plugins) = "ONE" ->
             { [store |-> o.store, generated |-> o.generated, raised |-> o.raised,
                reports |-> <<>>]
               : o \in insert(update_plugin(CHOOSE p \in plugins[2] : TRUE,
                                            plugin_data), TRUE, st) }
      [] OTHER ->
             { [store |-> st, generated |-> None, raised |-> "",
                reports |-> <<Report(plugins, plugin_data)>>] }

-----------------------------------------------------------------------------
(* Bounds and inputs of the ingestion runs *)

MaxRecords == 2
MaxLog == 2

Url_a == PyStr(<<"a","/","r","b">>)
Url_b == PyStr(<<"b","/","r","b">>)

\* The scrapes fed to add_scraped_data: two vim.org scripts whose names give
\* the same slug, one of them also seen with a slug of its own and with data
\* from two different GitHub repos, and a GitHub repo with no vim.org id.
Script1 == [vimorg_id |-> PyStr(<<"1">>), vimorg_name |-> PyStr(Name_Rb)]
Script2 == [vimorg_id |-> PyStr(<<"2">>), vimorg_name |-> PyStr(Name_rb)]
Repo == [github_owner |-> PyStr(<<"a">>), github_repo_name |-> PyStr(Name_rb),
         github_url |-> Url_a]

Scraped ==
    { Script1,
      Script2,
      Repo,
      DictUpdate(Script1, [slug |-> PyStr(<<"r","b","-","r","e","d">>)]),
      DictUpdate(Script1, [github_url |-> Url_a, updated_at |-> PyInt(2),
                           created_at |-> PyInt(1), github_stars |-> PyInt(1),
                           vimorg_short_desc |-> PyStr(<<"x">>)]),
      DictUpdate(Script1, [github_url |-> Url_b, updated_at |-> PyInt(1),
                           created_at |-> PyInt(2), vimorg_short_desc |-> None]) }

NoCall ==
    [op |-> "none", data |-> EmptyDict, path |-> "", matched |-> {},
     generated |-> None, raised |-> ""]

Idle == [p \in {} |-> ""]

\* the variables only the merge runs use
UnchangedMerge == UNCHANGED <<old_plugin, new_plugin, merged, heap>>

\* the variables only the search runs and the tag runs use
UnchangedViews == UNCHANGED <<index, tag_counts>>

\* no dict object, no search index and no tag counter yet
InitViews ==
    /\ heap = EmptyDict
    /\ index = None
    /\ tag_counts = EmptyDict

InitCommon ==
    /\ log = <<>>
    /\ assigned = {}
    /\ last = NoCall
    /\ pc = Idle
    /\ loc = Idle
    /\ old_plugin = EmptyDict
    /\ new_plugin = EmptyDict
    /\ merged = EmptyDict
    /\ InitViews

Init ==
    /\ store = EmptyDict
    /\ InitCommon

\* one whole add_scraped_data(plugin_data) call, run alone
Ingest(plugin_data) ==
    LET plugins == find_matching_vimorg_plugins(plugin_data, store)
    IN  \E o \in AddOutcomes(plugin_data, plugins, store) :
            /\ store' = o.store
            /\ log' = log \o o.reports
            /\ assigned' = IF o.generated # None
                           THEN assigned \cup {o.generated} ELSE assigned
            /\ last' = [op |-> "add_scraped_data", data |-> plugin_data,
                        path |-> MatchCase(plugins),
                        matched |-> MatchedSlugs(plugins),
                        generated |-> o.generated, raised |-> o.raised]
            /\ UNCHANGED <<pc, loc>>
            /\ UnchangedMerge
            /\ UnchangedViews

\* the call, while the table and the log are within the bounds
AddScrapedData(plugin_data) ==
    /\ Ingest(plugin_data)
    /\ Cardinality(DOMAIN store') <= MaxRecords
    /\ Len(log') <= MaxLog

Next == \E plugin_data \in Scraped : AddScrapedData(plugin_data)

Spec == Init /\ [][Next]_vars

-----------------------------------------------------------------------------
(* Serialized ingestion: the claims *)

\* the keys of the documents in table st that carry plugin_data's vimorg_id
SameVimorgId(plugin_data, st) ==
    {k \in DOMAIN st : /\ Truthy(Get(plugin_data, "vimorg_id"))
                       /\ st[k]["vimorg_id"] = plugin_data["vimorg_id"]}

\* C1: a slug returned by _generate_unique_slug is the slug of no stored
\* document and was never returned before, so the slugs assigned by serialized
\* calls are pairwise distinct
C1_SlugUnique ==
    [][last'.generated # None =>
          /\ last'.generated \notin DOMAIN store
          /\ last'.generated \notin assigned]_vars

\* C1 witness: two plugins whose names differ and give the same base slug have
\* both been assigned a slug, the second one a suffixed slug
C1_Witness ==
    /\ Cardinality(assigned) >= 2
    /\ PyStr(<<"r","b">>) \in assigned
    /\ last.generated # None
    /\ last.generated # PyStr(<<"r","b">>)
    /\ \E j, k \in DOMAIN store :
          /\ store[j]["vimorg_name"] = PyStr(Name_Rb)
          /\ store[k]["vimorg_name"] = PyStr(Name_rb)

\* C2 (as claimed): a call that matches exactly one stored document writes the
\* merged document under that document's slug: no key is added to the table
\* and the document under the matched slug still carries that slug
C2_SlugStable ==
    [][\A k \in DOMAIN store :
          (last'.op = "add_scraped_data" /\ SameVimorgId(last'.data, store) = {k})
              => /\ DOMAIN store' = DOMAIN store
                 /\ store'[k]["slug"] = k]_vars

\* C5: a call whose data matches two or more stored documents leaves the table
\* as it was and logs exactly one report, which lists the slugs of all the
\* matched documents
C5_AmbiguousMatch ==
    [][(last'.op = "add_scraped_data"
            /\ Cardinality(SameVimorgId(last'.data, store)) >= 2)
          => /\ store' = store
             /\ Len(log') = Len(log) + 1
             /\ log'[Len(log')].slugs = SameVimorgId(last'.data, store)
             /\ log'[Len(log')].data = last'.data]_vars

\* C5 witness: a report naming two slugs has been logged
C5_Witness ==
    /\ Len(log) >= 1
    /\ Cardinality(log[Len(log)].slugs) >= 2
    /\ last.path = "MANY"

\* two documents describe the same plugin: the same vim.org script or the same
\* GitHub repo
SamePlugin(a, b) ==
    \/ Truthy(a["vimorg_id"]) /\ a["vimorg_id"] = b["vimorg_id"]
    \/ /\ Truthy(a["github_owner"]) /\ a["github_owner"] = b["github_owner"]
       /\ Truthy(a["github_repo_name"])
       /\ a["github_repo_name"] = b["github_repo_name"]

\* C6 (as claimed): the table holds at most one document per plugin
C6_NoDuplicates ==
    \A j, k \in DOMAIN store : j # k => ~SamePlugin(store[j], store[k])

\* the keys under which tables st and st2 differ: a document added, removed or
\* replaced by a different one
ChangedKeys(st, st2) ==
    {k \in (DOMAIN st) \cup (DOMAIN st2) :
        \/ k \notin DOMAIN st
        \/ k \notin DOMAIN st2
        \/ st[k] # st2[k]}

\* C11 (as claimed): a call changes the table under at most one key; a call
\* that matches exactly one stored document changes nothing but the document
\* under the matched slug and adds no key; a call that matches none and does
\* not fail adds exactly one document under a key that was free and changes no
\* stored document
C11_WriteFootprint ==
    [][last'.op = "add_scraped_data" =>
          /\ Cardinality(ChangedKeys(store, store')) <= 1
          /\ \A k \in DOMAIN store :
                SameVimorgId(last'.data, store) = {k}
                    => /\ DOMAIN store' = DOMAIN store
                       /\ ChangedKeys(store, store') \subseteq {k}
          /\ (SameVimorgId(last'.data, store) = {} /\ last'.raised = "")
                => /\ Cardinality(DOMAIN store') = Cardinality(DOMAIN store) + 1
                   /\ DOMAIN store \subseteq DOMAIN store'
                   /\ ChangedKeys(store, store') \cap DOMAIN store = {}]_vars

\* C18 (as claimed): after a call every stored document has every key of the
\* row schema, and in a document the call inserted for data that matched
\* nothing, every schema field but the slug that the data does not supply
\* holds the schema's default
C18_SchemaComplete ==
    [][last'.op = "add_scraped_data" =>
          /\ \A k \in DOMAIN store' : DOMAIN ROW_SCHEMA \subseteq DOMAIN store'[k]
          /\ last'.path = "NONE" =>
                \A k \in (DOMAIN store') \ (DOMAIN store) :
                    \A f \in (DOMAIN ROW_SCHEMA) \ {"slug"} :
                        f \notin DOMAIN last'.data
                            => store'[k][f] = ROW_SCHEMA[f]]_vars

-----------------------------------------------------------------------------
(* Merge runs: update_plugin applied to two bounded dicts *)

MaxTime == 2
MaxStars == 1

\* the dicts with the given keys, each key taking a value of its set
DictsOver(keys, vals) ==
    UNION { [K -> UNION {vals[k] : k \in K}] : K \in SUBSET keys }

MergeFields == {"github_url", "updated_at", "created_at", "github_stars"}

\* a key may be missing (any subset of the keys is a domain); updated_at may
\* also be stored as None
MergeValues ==
    [ github_url |-> {Url_a, Url_b},
      updated_at |-> {None} \cup {PyInt(t) : t \in 0..MaxTime},
      created_at |-> {PyInt(t) : t \in 0..MaxTime},
      github_stars |-> {PyInt(n) : n \in 0..MaxStars} ]

MergeDicts ==
    { d \in DictsOver(MergeFields, MergeValues) :
          \A k \in DOMAIN d : d[k] \in MergeValues[k] }

InitMerge ==
    /\ store = EmptyDict
    /\ log = <<>>
    /\ assigned = {}
    /\ last = NoCall
    /\ pc = Idle
    /\ loc = Idle
    /\ old_plugin \in MergeDicts
    /\ new_plugin \in MergeDicts
    /\ merged = EmptyDict
    /\ InitViews

\* merged = update_plugin(old_plugin, new_plugin)
UpdatePlugin ==
    /\ last.op = "none"
    /\ merged' = update_plugin(old_plugin, new_plugin)
    /\ last' = [NoCall EXCEPT !.op = "update_plugin"]
    /\ UNCHANGED <<store, log, assigned, pc, loc, old_plugin, new_plugin, heap>>
    /\ UnchangedViews

NextMerge == UpdatePlugin

SpecMerge == InitMerge /\ [][NextMerge]_vars

Absent(d, f) == f \notin DOMAIN d \/ d[f] = None
Present(d, f) == ~Absent(d, f)

\* C3: a field present in one argument and absent (missing or None) in the
\* other has the present value in the result, whichever argument is the base
C3_NonDestructive ==
    last.op = "update_plugin" =>
        \A f \in MergeFields :
            /\ (Present(old_plugin, f) /\ Absent(new_plugin, f))
                   => (f \in DOMAIN merged /\ merged[f] = old_plugin[f])
            /\ (Present(new_plugin, f) /\ Absent(old_plugin, f))
                   => (f \in DOMAIN merged /\ merged[f] = new_plugin[f])

\* C3 witness: a merge with the old plugin as the more authoritative one, in
\* which new_plugin holds None for a field old_plugin has, and has a field
\* old_plugin lacks
C3_Witness ==
    /\ last.op = "update_plugin"
    /\ is_more_authoritative(old_plugin, new_plugin)
    /\ "updated_at" \in DOMAIN new_plugin
    /\ new_plugin["updated_at"] = None
    /\ merged["updated_at"] = PyInt(MaxTime)
    /\ "created_at" \notin DOMAIN old_plugin
    /\ Get(merged, "created_at") = PyInt(1)

\* d holds a date in field f: a number other than 0, the schema's value for
\* "no date"
HoldsDate(d, f) == Present(d, f) /\ d[f][1] = "int" /\ d[f][2] # 0

\* C4 (as claimed, for one merge): the result's updated_at is not below the
\* updated_at of either argument and its created_at is not above the
\* created_at of either argument
C4_TimestampsMonotone ==
    last.op = "update_plugin" =>
        \A r \in {old_plugin, new_plugin} :
            /\ HoldsDate(r, "updated_at")
                   => /\ Present(merged, "updated_at")
                      /\ merged["updated_at"][2] >= r["updated_at"][2]
            /\ HoldsDate(r, "created_at")
                   => /\ Present(merged, "created_at")
                      /\ merged["created_at"][2] <= r["created_at"][2]

\* C12: merging a dict with itself returns a dict equal to it: the same keys
\* with the same values, updated_at and created_at included
C12_MergeIdempotent ==
    (last.op = "update_plugin" /\ old_plugin = new_plugin) => merged = old_plugin

\* C12 witness: a dict that holds both dates and a URL has been merged with
\* itself, so both date steps assigned
C12_Witness ==
    /\ last.op = "update_plugin"
    /\ old_plugin = new_plugin
    /\ HoldsDate(old_plugin, "updated_at")
    /\ HoldsDate(old_plugin, "created_at")
    /\ Present(old_plugin, "github_url")
    /\ merged = new_plugin

\* the number a field counts as in a comparison: 0 for a missing key, and None
\* below every number
Num(d, f) ==
    LET v == GetDefault(d, f, PyInt(0))
    IN  IF v = None THEN -1 ELSE v[2]

\* d carries a repository URL
HasUrl(d) ==
    /\ "github_url" \in DOMAIN d
    /\ d["github_url"] # None
    /\ d["github_url"] # PyStr(<<>>)

\* C13: is_more_authoritative(a, b) holds exactly when both carry a URL, the
\* URLs differ, and a's updated_at is greater or the two are equal and a has
\* strictly more stars; checked for the two arguments in both orders and for
\* each argument against itself
C13_AuthorityDecision ==
    last.op = "update_plugin" =>
        \A a, b \in {old_plugin, new_plugin} :
            is_more_authoritative(a, b) <=>
                /\ HasUrl(a)
                /\ HasUrl(b)
                /\ a["github_url"] # b["github_url"]
                /\ \/ Num(a, "updated_at") > Num(b, "updated_at")
                   \/ /\ Num(a, "updated_at") = Num(b, "updated_at")
                      /\ Num(a, "github_stars") > Num(b, "github_stars")

\* C13 witness: two different URLs with the same updated_at, where the stars
\* decide for old_plugin and against new_plugin
C13_Witness ==
    /\ last.op = "update_plugin"
    /\ HasUrl(old_plugin) /\ HasUrl(new_plugin)
    /\ old_plugin["github_url"] # new_plugin["github_url"]
    /\ HoldsDate(old_plugin, "updated_at")
    /\ Get(new_plugin, "updated_at") = old_plugin["updated_at"]
    /\ Num(old_plugin, "github_stars") > Num(new_plugin, "github_stars")
    /\ is_more_authoritative(old_plugin, new_plugin)
    /\ ~is_more_authoritative(new_plugin, old_plugin)

\* the fields of the merge runs that are not one of the two dates
PlainFields == MergeFields \ {"updated_at", "created_at"}

\* C14: a field other than the two dates that both arguments hold with
\* different values has old_plugin's value in the result when old_plugin is the
\* more authoritative, and new_plugin's value otherwise
C14_MergeDirection ==
    last.op = "update_plugin" =>
        \A f \in PlainFields :
            (/\ Present(old_plugin, f)
             /\ Present(new_plugin, f)
             /\ old_plugin[f] # new_plugin[f])
                => merged[f] = IF is_more_authoritative(old_plugin, new_plugin)
                               THEN old_plugin[f] ELSE new_plugin[f]

\* C14 witness: old_plugin is the more authoritative and the result has its
\* URL and its stars, which differ from new_plugin's
C14_Witness ==
    /\ last.op = "update_plugin"
    /\ is_more_authoritative(old_plugin, new_plugin)
    /\ Present(old_plugin, "github_stars")
    /\ Present(new_plugin, "github_stars")
    /\ old_plugin["github_stars"] # new_plugin["github_stars"]
    /\ merged["github_stars"] = old_plugin["github_stars"]
    /\ merged["github_url"] = old_plugin["github_url"]
    /\ merged["github_url"] # new_plugin["github_url"]

\* C20: is_more_authoritative never holds in both orders of its two arguments
\* and never holds of an argument against itself
C20_AuthorityAsymmetric ==
    /\ ~(/\ is_more_authoritative(old_plugin, new_plugin)
         /\ is_more_authoritative(new_plugin, old_plugin))
    /\ ~is_more_authoritative(old_plugin, old_plugin)
    /\ ~is_more_authoritative(new_plugin, new_plugin)

\* C20 witness: a merge in which new_plugin is the more authoritative one by
\* its stars alone and old_plugin is not, so the merge took new_plugin's stars
C20_Witness ==
    /\ last.op = "update_plugin"
    /\ is_more_authoritative(new_plugin, old_plugin)
    /\ ~is_more_authoritative(old_plugin, new_plugin)
    /\ Num(old_plugin, "updated_at") = Num(new_plugin, "updated_at")
    /\ merged["github_stars"] = new_plugin["github_stars"]
    /\ merged["github_stars"] # Get(old_plugin, "github_stars")

-----------------------------------------------------------------------------
(* Object runs: update_plugin on dict objects.  A dict is an object of the
   heap, an argument or a local holds the id of one, and an item assignment
   changes the object it is made on, whoever else holds its id. *)

\* the id of a new object
NewObject(h) == Cardinality(DOMAIN h) + 1

\* a faulty variant of dict_new: dict_a is updated in place and handed back
dict_new_InPlace(h, dict_a) == dict_a

\* the object dict(dict_a, **dict_b_filtered) returns: a new dict, whatever
\* dict_a is
dict_new(h, dict_a) == NewObject(h)

\* heap h with object id holding contents d
Stored(h, id, d) == [i \in (DOMAIN h) \cup {id} |-> IF i = id THEN d ELSE h[i]]

\* the two arguments are any two bounded dicts, held by two objects, or one
\* dict passed twice
InitObjects ==
    /\ old_plugin \in MergeDicts
    /\ new_plugin \in MergeDicts
    /\ \/ /\ heap = Stored(Stored(EmptyDict, 1, old_plugin), 2, new_plugin)
          /\ loc = [old_plugin |-> 1, new_plugin |-> 2, updated_plugin |-> 0]
       \/ /\ old_plugin = new_plugin
          /\ heap = Stored(EmptyDict, 1, old_plugin)
          /\ loc = [old_plugin |-> 1, new_plugin |-> 1, updated_plugin |-> 0]
    /\ pc = "merge"
    /\ merged = EmptyDict
    /\ store = EmptyDict
    /\ log = <<>>
    /\ assigned = {}
    /\ last = NoCall
    /\ index = None
    /\ tag_counts = EmptyDict

UnchangedTable == UNCHANGED <<store, log, assigned>>

\* updated_plugin = _merge_dict_except_none(...), in the direction
\* is_more_authoritative gives
MergeObjects ==
    /\ pc = "merge"
    /\ LET old == heap[loc.old_plugin]
           new == heap[loc.new_plugin]
           dict_a == IF is_more_authoritative(old, new)
                     THEN loc.new_plugin ELSE loc.old_plugin
           dict_b == IF is_more_authoritative(old, new)
                     THEN loc.old_plugin ELSE loc.new_plugin
           result == dict_new(heap, dict_a)
       IN  /\ heap' = Stored(heap, result,
                             merge_dict_except_none(heap[dict_a], heap[dict_b]))
           /\ loc' = [loc EXCEPT !.updated_plugin = result]
    /\ pc' = "latest"
    /\ UNCHANGED <<old_plugin, new_plugin, merged, last>>
    /\ UnchangedTable
    /\ UnchangedViews

\* updated_plugin['updated_at'] = max(...) when both arguments have a date
SetUpdatedAt ==
    /\ pc = "latest"
    /\ heap' = [heap EXCEPT ![loc.updated_plugin] =
                   KeepLatestUpdated(@, heap[loc.old_plugin], heap[loc.new_plugin])]
    /\ pc' = "earliest"
    /\ UNCHANGED <<old_plugin, new_plugin, merged, last, loc>>
    /\ UnchangedTable
    /\ UnchangedViews

\* updated_plugin['created_at'] = min(...) when both arguments have a date
SetCreatedAt ==
    /\ pc = "earliest"
    /\ heap' = [heap EXCEPT ![loc.updated_plugin] =
                   KeepEarliestCreated(@, heap[loc.old_plugin], heap[loc.new_plugin])]
    /\ pc' = "return"
    /\ UNCHANGED <<old_plugin, new_plugin, merged, last, loc>>
    /\ UnchangedTable
    /\ UnchangedViews

\* return updated_plugin
ReturnUpdated ==
    /\ pc = "return"
    /\ merged' = heap[loc.updated_plugin]
    /\ last' = [NoCall EXCEPT !.op = "update_plugin"]
    /\ pc' = "done"
    /\ UNCHANGED <<old_plugin, new_plugin, heap, loc>>
    /\ UnchangedTable
    /\ UnchangedViews

NextObjects == MergeObjects \/ SetUpdatedAt \/ SetCreatedAt \/ ReturnUpdated

SpecObjects == InitObjects /\ [][NextObjects]_vars

\* C16: at every point of the call the two argument objects hold what they
\* held when it began, and the object returned is neither of them
C16_MergePure ==
    /\ heap[loc.old_plugin] = old_plugin
    /\ heap[loc.new_plugin] = new_plugin
    /\ pc = "done" => /\ loc.updated_plugin # loc.old_plugin
                      /\ loc.updated_plugin # loc.new_plugin

\* C16 witness: a call has returned a dict that differs from both arguments,
\* with both dates assigned, and the arguments are as they were
C16_Witness ==
    /\ pc = "done"
    /\ merged # old_plugin
    /\ merged # new_plugin
    /\ HoldsDate(old_plugin, "updated_at") /\ HoldsDate(new_plugin, "updated_at")
    /\ HoldsDate(old_plugin, "created_at") /\ HoldsDate(new_plugin, "created_at")
    /\ old_plugin["updated_at"] # new_plugin["updated_at"]
    /\ heap[loc.old_plugin] = old_plugin
    /\ heap[loc.new_plugin] = new_plugin
    /\ heap[loc.updated_plugin] = merged

-----------------------------------------------------------------------------
(* Exhaustion runs: ingestion against a table in which the slugs of one name
   are nearly used up *)

MaxFree == 2

\* a scrape with an id and no name at all
Nameless == [vimorg_id |-> PyStr(<<"3">>)]

ExhaustInputs == {Repo, Script2, Nameless}

\* The table after add_scraped_data(Repo) has run until every slug of "rb" is
\* taken but the suffixed slugs numbered in free: the scrape has no vimorg_id,
\* so every call inserted it again under the next slug the shuffle gave.
RepoTable(free) ==
    LET taken == {slugify(Name_rb)} \cup
                 {SuffixedSlug(Name_rb, i) : i \in (1..Len(slug_suffixes)) \ free}
    IN  [k \in {PyStr(t) : t \in taken} |-> MappedPlugin(DictSet(Repo, "slug", k))]

InitExhaust ==
    /\ \E free \in SUBSET (1..Len(slug_suffixes)) :
          /\ Cardinality(free) <= MaxFree
          /\ store = RepoTable(free)
          /\ assigned = DOMAIN store
    /\ log = <<>>
    /\ last = NoCall
    /\ pc = Idle
    /\ loc = Idle
    /\ old_plugin = EmptyDict
    /\ new_plugin = EmptyDict
    /\ merged = EmptyDict
    /\ InitViews

NextExhaust == \E plugin_data \in ExhaustInputs : Ingest(plugin_data)

SpecExhaust == InitExhaust /\ [][NextExhaust]_vars

\* the base slug of "rb" and its 18 suffixed slugs, written out
RbSlugs ==
    {PyStr(<<"r","b">>)} \cup
    {PyStr(<<"r","b","-">> \o slug_suffixes[i]) : i \in 1..18}

\* C10: a call that has to generate a slug for a named plugin fails exactly
\* when the base slug and all 18 suffixed slugs are taken, and a call that
\* fails leaves the table as it was
C10_ExhaustionSafe ==
    [][last'.op = "add_scraped_data" =>
          /\ (/\ SameVimorgId(last'.data, store) = {}
              /\ Truthy(PluginName(last'.data)))
                 => (last'.raised # "" <=> RbSlugs \subseteq DOMAIN store)
          /\ last'.raised # "" => store' = store]_vars

\* C10 witness: a call has failed for want of a free slug, with all 19 slugs
\* stored
C10_Witness ==
    /\ last.raised = "Exception"
    /\ last.data = Script2
    /\ Cardinality(DOMAIN store) = 19

-----------------------------------------------------------------------------
(* Interleaved runs: two callers of add_scraped_data with no serialization.
   Every access to the table is a step of its own; what a caller computes
   between two accesses belongs to the step of the access before it. *)

Callers == {"A", "B"}

DescX == [vimorg_short_desc |-> PyStr(<<"x">>)]
DescY == [github_short_desc |-> PyStr(<<"y">>)]

\* two scrapes of script 1 that each bring a field of their own, and script 2
ConcInputs == {DictUpdate(Script1, DescX), DictUpdate(Script1, DescY), Script2}

\* the document of script 1 as a first, serialized scrape stored it
Stored1 == MappedPlugin(DictSet(Script1, "slug", PyStr(slugify(Name_Rb))))

NoLocals ==
    [data |-> EmptyDict, plugins |-> None, plugin |-> EmptyDict, upsert |-> FALSE,
     slug |-> None, tried |-> {}, rejected |-> FALSE, raised |-> ""]

\* a second document of script 1, as the duplicate-insert race leaves it
Stored1Twin ==
    MappedPlugin(DictSet(Script1, "slug", PyStr(SuffixedSlug(Name_Rb, 12))))

\* the table with the given documents
TableOf(docs) == [k \in {d["slug"] : d \in docs} |-> CHOOSE d \in docs : d["slug"] = k]

InitConc ==
    /\ store \in {EmptyDict, TableOf({Stored1}), TableOf({Stored1, Stored1Twin})}
    /\ log = <<>>
    /\ assigned = {}
    /\ last = NoCall
    /\ pc = [c \in Callers |-> "idle"]
    /\ loc = [c \in Callers |-> NoLocals]
    /\ old_plugin = EmptyDict
    /\ new_plugin = EmptyDict
    /\ merged = EmptyDict
    /\ InitViews

\* where insert goes first for a plugin: to the slug check when the plugin has
\* no slug, else straight to the table write
InsertEntry(plugin) ==
    IF ~Truthy(Get(plugin, "slug")) THEN "check_base" ELSE "write"

\* the caller enters add_scraped_data(plugin_data)
Call(c, plugin_data) ==
    /\ pc[c] = "idle"
    /\ pc' = [pc EXCEPT ![c] = "find"]
    /\ loc' = [loc EXCEPT ![c] = [NoLocals EXCEPT !.data = plugin_data]]
    /\ UNCHANGED <<store, log, assigned, last>>
    /\ UnchangedMerge
    /\ UnchangedViews

\* the lookup, and the branch taken on its result up to the next table access
Find(c) ==
    /\ pc[c] = "find"
    /\ LET plugins == find_matching_vimorg_plugins(loc[c].data, store)
           plugin == CASE MatchCase(plugins) = "NONE" -> loc[c].data
                       [] MatchCase(plugins) = "ONE" ->
                              update_plugin(CHOOSE p \in plugins[2] : TRUE,
                                            loc[c].data)
                       [] OTHER -> EmptyDict
       IN  /\ loc' = [loc EXCEPT ![c].plugins = plugins,
                                 ![c].plugin = plugin,
                                 ![c].upsert = (MatchCase(plugins) = "ONE"),
                                 ![c].slug = Get(plugin, "slug")]
           /\ pc' = [pc EXCEPT ![c] = IF MatchCase(plugins) = "MANY"
                                      THEN "report" ELSE InsertEntry(plugin)]
    /\ UNCHANGED <<store, log, assigned, last>>
    /\ UnchangedMerge
    /\ UnchangedViews

\* _generate_unique_slug up to its first _slug_taken: the base slug
CheckBase(c) ==
    /\ pc[c] = "check_base"
    /\ LET name == PluginName(loc[c].plugin)
       IN  IF ~Truthy(name)
           THEN /\ loc' = [loc EXCEPT ![c].raised = "AssertionError"]
                /\ pc' = [pc EXCEPT ![c] = "done"]
                /\ UNCHANGED assigned
           ELSE IF ~slug_taken(slugify(name[2]), store)
           THEN /\ loc' = [loc EXCEPT ![c].slug = PyStr(slugify(name[2]))]
                /\ pc' = [pc EXCEPT ![c] = "write"]
                /\ assigned' = assigned \cup {PyStr(slugify(name[2]))}
           ELSE /\ pc' = [pc EXCEPT ![c] = "check_suffix"]
                /\ UNCHANGED <<loc, assigned>>
    /\ UNCHANGED <<store, log, last>>
    /\ UnchangedMerge
    /\ UnchangedViews

\* one turn of the loop over the shuffled suffixes: the next suffix of the
\* shuffled list is any suffix not tried yet
CheckSuffix(c) ==
    /\ pc[c] = "check_suffix"
    /\ LET name == PluginName(loc[c].plugin)[2]
           untried == (1..Len(slug_suffixes)) \ loc[c].tried
       IN  IF untried = {}
           THEN /\ loc' = [loc EXCEPT ![c].raised = "Exception"]
                /\ pc' = [pc EXCEPT ![c] = "done"]
                /\ UNCHANGED assigned
           ELSE \E i \in untried :
                   IF ~slug_taken(SuffixedSlug(name, i), store)
                   THEN /\ loc' = [loc EXCEPT ![c].slug =
                                       PyStr(SuffixedSlug(name, i))]
                        /\ pc' = [pc EXCEPT ![c] = "write"]
                        /\ assigned' = assigned \cup {PyStr(SuffixedSlug(name, i))}
                   ELSE /\ loc' = [loc EXCEPT ![c].tried = @ \cup {i}]
                        /\ UNCHANGED <<pc, assigned>>
    /\ UNCHANGED <<store, log, last>>
    /\ UnchangedMerge
    /\ UnchangedViews

\* the table write that ends insert
Write(c) ==
    /\ pc[c] = "write"
    /\ LET doc == MappedPlugin(DictSet(loc[c].plugin, "slug", loc[c].slug))
       IN  /\ store' = table_insert(store, doc, loc[c].upsert)
           /\ loc' = [loc EXCEPT ![c].rejected =
                          (doc["slug"] \in DOMAIN store /\ ~loc[c].upsert)]
    /\ pc' = [pc EXCEPT ![c] = "done"]
    /\ last' = [NoCall EXCEPT !.op = "write", !.data = loc[c].data,
                              !.path = c]
    /\ UNCHANGED <<log, assigned>>
    /\ UnchangedMerge
    /\ UnchangedViews

\* the logging.error call of the last branch
ReportMany(c) ==
    /\ pc[c] = "report"
    /\ log' = Append(log, Report(loc[c].plugins, loc[c].data))
    /\ pc' = [pc EXCEPT ![c] = "done"]
    /\ UNCHANGED <<store, assigned, last, loc>>
    /\ UnchangedMerge
    /\ UnchangedViews

NextConc ==
    \E c \in Callers :
        \/ \E plugin_data \in ConcInputs : Call(c, plugin_data)
        \/ Find(c)
        \/ CheckBase(c)
        \/ CheckSuffix(c)
        \/ Write(c)
        \/ ReportMany(c)

SpecConc == InitConc /\ [][NextConc]_vars


-----------------------------------------------------------------------------
(* Interleaved runs: the claims *)

Other(c) == CHOOSE d \in Callers : d # c

\* the document a caller that found no match sends to the table
InsertedDoc(c) == MappedPlugin(DictSet(loc[c].data, "slug", loc[c].slug))

\* both callers have returned, each having found no match for the same id
BothInsertedSameId ==
    /\ \A c \in Callers :
          /\ pc[c] = "done"
          /\ loc[c].plugins = Rows({})
          /\ loc[c].raised = ""
    /\ \A c, d \in Callers : loc[c].data["vimorg_id"] = loc[d].data["vimorg_id"]

\* C7: when two interleaved calls for the same id both found no match, each
\* write the table accepted put that caller's document under the slug it was
\* handed; with both writes accepted the table holds two documents with the id
\* under different slugs
C7_DuplicateInsertRace ==
    BothInsertedSameId =>
        /\ \A c \in Callers :
              ~loc[c].rejected =>
                  /\ loc[c].slug \in DOMAIN store
                  /\ store[loc[c].slug] = InsertedDoc(c)
        /\ (\A c \in Callers : ~loc[c].rejected) =>
              /\ \A c \in Callers : loc[c].slug # loc[Other(c)].slug
              /\ \A c \in Callers :
                    SameVimorgId(loc[c].data, store) = {loc[d].slug : d \in Callers}

\* C7 witness: both calls found no match for id 1 and inserted, and the table
\* holds two documents with id 1 under different slugs
C7_Witness ==
    /\ BothInsertedSameId
    /\ \A c \in Callers : ~loc[c].rejected
    /\ loc["A"].slug # loc["B"].slug
    /\ Cardinality(SameVimorgId(Script1, store)) = 2

\* both callers have returned, each having matched the one stored document of
\* script 1 as it was before either wrote
BothReadStored1 ==
    \A c \in Callers : pc[c] = "done" /\ loc[c].plugins = Rows({Stored1})

\* C8: when two interleaved calls both matched the stored document before
\* either wrote, the table ends with the later writer's merge of the document
\* as it was read: the stored document overlaid with that caller's data alone
C8_LostUpdateRace ==
    BothReadStored1 =>
        store[Stored1["slug"]] = DictUpdate(Stored1, last.data)

\* C8 witness: the call that brought vimorg_short_desc wrote first, the call
\* that brought github_short_desc wrote last, and the stored document no
\* longer has the first call's value
C8_Witness ==
    /\ BothReadStored1
    /\ \E c \in Callers : loc[c].data = DictUpdate(Script1, DescX)
    /\ last.data = DictUpdate(Script1, DescY)
    /\ store[Stored1["slug"]]["vimorg_short_desc"] = PyStr(<<>>)
    /\ store[Stored1["slug"]]["github_short_desc"] = PyStr(<<"y">>)

\* both callers hold a slug _generate_unique_slug returned and have not
\* written yet
BothHoldSlug ==
    \A c \in Callers : pc[c] = "write" /\ ~loc[c].upsert /\ loc[c].slug \in assigned

\* C9: a slug that two callers hold at once before writing is still free in
\* the table: each found it free and neither has written
C9_SlugCheckThenUse ==
    (BothHoldSlug /\ loc["A"].slug = loc["B"].slug)
        => loc["A"].slug \notin DOMAIN store

\* C9 witness: the calls for script 1 and script 2, whose names differ, are
\* both handed the slug "rb" while the table is empty
C9_Witness ==
    /\ BothHoldSlug
    /\ loc["A"].slug = PyStr(<<"r","b">>)
    /\ loc["B"].slug = PyStr(<<"r","b">>)
    /\ loc["A"].data["vimorg_id"] # loc["B"].data["vimorg_id"]
    /\ store = EmptyDict

-----------------------------------------------------------------------------
(* Tag runs: update_tags on the stored documents, with the counters of db.tags *)

MaxTagLen == 2

tag_names == <<PyStr(<<"a">>), PyStr(<<"b">>), PyStr(<<"c">>)>>

\* The tag lists of the runs: up to MaxTagLen tags in alphabetical order, a
\* tag possibly repeated.  update_tags builds sets from a list and stores the
\* list as it is, so the order of a list's elements has no effect on it.
TagLists ==
    UNION { { PyList([i \in 1..n |-> tag_names[f[i]]]) :
                f \in {g \in [1..n -> 1..Len(tag_names)] :
                          \A i \in 1..(n - 1) : g[i] <= g[i + 1]} } :
            n \in 0..MaxTagLen }

\* set(l) for a list
PySet(l) == {l[2][i] : i \in 1..Len(l[2])}

\* the value of a tag's counter, 0 for a tag that has none
Count(counts, tag) == IF tag \in DOMAIN counts THEN counts[tag] ELSE 0

\* db.tags.add_tag: the tag's counter goes up by one
add_tag(counts, tag) ==
    [t \in (DOMAIN counts) \cup {tag} |->
        IF t = tag THEN Count(counts, tag) + 1 ELSE counts[t]]

\* db.tags.remove_tag: the tag's counter goes down by one
remove_tag(counts, tag) ==
    [t \in (DOMAIN counts) \cup {tag} |->
        IF t = tag THEN Count(counts, tag) - 1 ELSE counts[t]]

\* a faulty variant of added_tags: every given tag counts as added
added_tags_All(tags, plugin_tags) == PySet(tags)

\* set(tags) - set(plugin_tags)
added_tags(tags, plugin_tags) == PySet(tags) \ PySet(plugin_tags)

\* set(plugin_tags) - set(tags)
removed_tags(tags, plugin_tags) == PySet(plugin_tags) \ PySet(tags)

\* map(db.tags.add_tag, S): one call for each element of the set
RECURSIVE MapAddTag(_, _)
MapAddTag(S, counts) ==
    IF S = {} THEN counts
    ELSE LET t == CHOOSE x \in S : TRUE
         IN  MapAddTag(S \ {t}, add_tag(counts, t))

\* map(db.tags.remove_tag, S): one call for each element of the set
RECURSIVE MapRemoveTag(_, _)
MapRemoveTag(S, counts) ==
    IF S = {} THEN counts
    ELSE LET t == CHOOSE x \in S : TRUE
         IN  MapRemoveTag(S \ {t}, remove_tag(counts, t))

\* r.table('plugins').update(obj): obj is merged into every document of the
\* table; a document whose primary key obj would change is left as it is
table_update(st, obj) ==
    [k \in DOMAIN st |->
        IF "slug" \in DOMAIN obj /\ obj["slug"] # k
        THEN st[k]
        ELSE DictUpdate(st[k], obj)]

\* update_tags(plugin, tags): the table and the counters afterwards
update_tags(plugin, tags, st, counts) ==
    LET plugin_tags == plugin["tags"]
    IN  [store |-> table_update(st, DictSet(plugin, "tags", tags)),
         tag_counts |-> MapRemoveTag(removed_tags(tags, plugin_tags),
                            MapAddTag(added_tags(tags, plugin_tags), counts))]

\* the document of script 2 as a serialized scrape stored it after script 1
Stored2 ==
    MappedPlugin(DictSet(Script2, "slug", PyStr(SuffixedSlug(Name_rb, 12))))

\* the number of documents of table st that carry the tag
Carrying(st, tag) == Cardinality({k \in DOMAIN st : tag \in PySet(st[k]["tags"])})

\* every counter equals the number of documents carrying its tag
Consistent(st, counts) ==
    \A i \in 1..Len(tag_names) :
        Count(counts, tag_names[i]) = Carrying(st, tag_names[i])

\* two stored documents with any tag lists, and the counters that go with them
InitTags ==
    /\ \E l1, l2 \in TagLists :
          store = TableOf({DictSet(Stored1, "tags", l1), DictSet(Stored2, "tags", l2)})
    /\ tag_counts = [t \in {tag_names[i] : i \in 1..Len(tag_names)} |->
                        Carrying(store, t)]
    /\ log = <<>>
    /\ assigned = {}
    /\ last = NoCall
    /\ pc = Idle
    /\ loc = Idle
    /\ old_plugin = EmptyDict
    /\ new_plugin = EmptyDict
    /\ merged = EmptyDict
    /\ heap = EmptyDict
    /\ index = None

\* one update_tags(plugin, tags) call for the stored document with slug k
UpdateTags(k, tags) ==
    /\ LET o == update_tags(store[k], tags, store, tag_counts)
       IN  /\ store' = o.store
           /\ tag_counts' = o.tag_counts
    /\ last' = [op |-> "update_tags", slug |-> k, tags |-> tags,
                plugin_tags |-> store[k]["tags"]]
    /\ UNCHANGED <<log, assigned, pc, loc, index>>
    /\ UnchangedMerge

NextTags == \E k \in DOMAIN store : \E tags \in TagLists : UpdateTags(k, tags)

SpecTags == InitTags /\ [][NextTags]_vars

\* C19: a call raises by one the counter of each tag of tags the document did
\* not carry, lowers by one the counter of each tag the document carried that
\* is not in tags, leaves every other counter and every other document as they
\* were and leaves the document with tags; and the counters, consistent
\* before the call, are consistent after it
C19_TagCounters ==
    [][last'.op = "update_tags" =>
          LET k == last'.slug
              before == PySet(store[k]["tags"])
              after == PySet(last'.tags)
          IN  /\ \A i \in 1..Len(tag_names) :
                    Count(tag_counts', tag_names[i]) =
                        Count(tag_counts, tag_names[i])
                        + (IF tag_names[i] \in after \ before THEN 1 ELSE 0)
                        - (IF tag_names[i] \in before \ after THEN 1 ELSE 0)
              /\ store'[k]["tags"] = last'.tags
              /\ \A j \in DOMAIN store' : j # k => store'[j] = store[j]
              /\ Consistent(store, tag_counts) => Consistent(store', tag_counts')]_vars

\* C19 witness: a document carrying 'a' and 'b' was given the tags 'a' and
\* 'c' while the other document carries 'a' too: 'a' is counted twice, 'b' no
\* more and 'c' once
C19_Witness ==
    /\ last.op = "update_tags"
    /\ PySet(last.plugin_tags) = {tag_names[1], tag_names[2]}
    /\ PySet(last.tags) = {tag_names[1], tag_names[3]}
    /\ store[last.slug]["tags"] = last.tags
    /\ Count(tag_counts, tag_names[1]) = 2
    /\ Count(tag_counts, tag_names[2]) = 0
    /\ Count(tag_counts, tag_names[3]) = 1

-----------------------------------------------------------------------------
(* Search runs: get_search_index over a bounded table *)

MaxDocs == 3

\* the fields query.pluck keeps
search_index_fields ==
    {"id", "name", "created_at", "updated_at", "tags", "homepage", "author",
     "vimorg_id", "vimorg_rating", "vimorg_short_desc", "github_stars",
     "github_url", "github_short_desc", "plugin_manager_users"}

\* pluck for one document: the listed fields that the document has
Pluck(doc) == [k \in (DOMAIN doc) \cap search_index_fields |-> doc[k]]

\* the orders in which the elements of S can come, each element once
Orders(S) ==
    {f \in [1..Cardinality(S) -> S] :
        \A i, j \in 1..Cardinality(S) : i # j => f[i] # f[j]}

sort_fields == <<"plugin_manager_users", "github_stars", "vimorg_rating">>

\* unary minus is defined for numbers only: -None raises TypeError
Negatable(p) ==
    \A i \in 1..Len(sort_fields) : GetDefault(p, sort_fields[i], PyInt(0))[1] = "int"

\* a faulty variant of SortKey: the components are not negated
SortKey_Ascending(p) ==
    [i \in 1..Len(sort_fields) |-> GetDefault(p, sort_fields[i], PyInt(0))[2]]

\* the key of the sort: (-p.get('plugin_manager_users', 0),
\* -p.get('github_stars', 0), -p.get('vimorg_rating', 0))
SortKey(p) ==
    [i \in 1..Len(sort_fields) |-> 0 - GetDefault(p, sort_fields[i], PyInt(0))[2]]

\* a < b for two tuples of numbers of the same length
TupleLess(a, b) ==
    \E i \in 1..Len(a) : a[i] < b[i] /\ \A j \in 1..(i - 1) : a[j] = b[j]

\* p put into a sorted list behind every element whose key is not greater
RECURSIVE InsertSorted(_, _)
InsertSorted(sorted, p) ==
    IF sorted = <<>> THEN <<p>>
    ELSE IF TupleLess(SortKey(p), SortKey(Head(sorted))) THEN <<p>> \o sorted
    ELSE <<Head(sorted)>> \o InsertSorted(Tail(sorted), p)

\* plugins.sort(key=...): ascending by key, elements with equal keys in the
\* order they had (the sort is stable)
RECURSIVE SortByKey(_)
SortByKey(plugins) ==
    IF plugins = <<>> THEN <<>>
    ELSE InsertSorted(SortByKey(SubSeq(plugins, 1, Len(plugins) - 1)),
                      plugins[Len(plugins)])

search_fields ==
    <<"name", "tags", "author", "vimorg_short_desc", "github_short_desc">>

Whitespace == {" "}

\* str.split() from position i on, word being the characters of the word in
\* progress
RECURSIVE SplitFrom(_, _, _)
SplitFrom(s, i, word) ==
    IF i > Len(s) THEN (IF word = <<>> THEN <<>> ELSE <<word>>)
    ELSE IF s[i] \in Whitespace
    THEN (IF word = <<>> THEN <<>> ELSE <<word>>) \o SplitFrom(s, i + 1, <<>>)
    ELSE SplitFrom(s, i + 1, Append(word, s[i]))

\* value.split(): the words between runs of whitespace
Split(s) == SplitFrom(s, 1, <<>>)

\* a faulty variant of LowerStr: the token is taken as it is
LowerStr_AsIs(s) == s

\* t.lower()
LowerStr(s) == [i \in 1..Len(s) |-> Lower(s[i])]

\* the isinstance chain accepts a string, a list and None
Tokenizable(value) == value[1] \in {"str", "list", "none"}

\* tokens_list for a value the isinstance chain accepts
TokensList(value) ==
    CASE value[1] = "str" -> Split(value[2])
      [] value[1] = "list" -> [i \in 1..Len(value[2]) |-> value[2][i][2]]
      [] OTHER -> <<>>

\* what one field adds to tokens
FieldTokens(plugin, field) ==
    IF field \notin DOMAIN plugin THEN {}
    ELSE LET tokens_list == TokensList(plugin[field])
         IN  {LowerStr(tokens_list[i]) : i \in 1..Len(tokens_list)}

\* _get_search_tokens_for_plugin: the set it returns, or the exception it
\* raises at the first field with a value of another type
get_search_tokens_for_plugin(plugin) ==
    IF \E i \in 1..Len(search_fields) :
          /\ search_fields[i] \in DOMAIN plugin
          /\ ~Tokenizable(plugin[search_fields[i]])
    THEN Raise("Exception")
    ELSE Return(UNION {FieldTokens(plugin, search_fields[i]) :
                           i \in 1..Len(search_fields)})

\* ' '.join(ts) for a sequence of tokens
RECURSIVE JoinSeq(_)
JoinSeq(ts) ==
    IF ts = <<>> THEN <<>>
    ELSE IF Len(ts) = 1 THEN ts[1]
    ELSE ts[1] \o <<" ">> \o JoinSeq(Tail(ts))

\* ' '.join(tokens) for a set: the set is iterated in an order the code does
\* not choose, so every order is a possible result
Joins(tokens) == {PyStr(JoinSeq(o)) : o \in Orders(tokens)}

\* the keywords of a list of plugins, given the token set of each: one
\* possible join for each plugin
RECURSIVE KeywordsChoices(_)
KeywordsChoices(token_sets) ==
    IF token_sets = <<>> THEN {<<>>}
    ELSE {<<k>> \o rest : k \in Joins(Head(token_sets)),
                          rest \in KeywordsChoices(Tail(token_sets))}

\* The documents of the search runs.  The first three are the records of the
\* ranking example; the others bring a key tie, missing sort fields, a field
\* that is None, an author that is a number and a star count that is None.
Doc0 == [slug |-> PyStr(<<"p","0">>), name |-> PyStr(<<"R","b">>),
         plugin_manager_users |-> PyInt(5),
         github_stars |-> PyInt(2), vimorg_rating |-> PyInt(1)]
Doc1 == [slug |-> PyStr(<<"p","1">>), name |-> PyStr(<<"r","b"," "," ","V","a">>),
         tags |-> PyList(<<PyStr(<<"B","/","V">>), PyStr(<<"v","a">>)>>),
         plugin_manager_users |-> PyInt(5), github_stars |-> PyInt(9),
         vimorg_rating |-> PyInt(1)]
Doc2 == [slug |-> PyStr(<<"p","2">>), author |-> PyStr(<<"A","B">>),
         github_short_desc |-> None,
         plugin_manager_users |-> PyInt(1), github_stars |-> PyInt(100),
         vimorg_rating |-> PyInt(1)]
Doc3 == [slug |-> PyStr(<<"p","3">>), tags |-> PyList(<<>>),
         vimorg_short_desc |-> PyStr(<<" ","a"," ","R","b"," ">>),
         github_stars |-> PyInt(9)]
Doc4 == [slug |-> PyStr(<<"p","4">>), name |-> PyStr(<<"r","B">>),
         plugin_manager_users |-> PyInt(5),
         github_stars |-> PyInt(2), vimorg_rating |-> PyInt(1)]
Doc5 == [slug |-> PyStr(<<"p","5">>), author |-> PyInt(7),
         plugin_manager_users |-> PyInt(1)]
Doc6 == [slug |-> PyStr(<<"p","6">>), name |-> PyStr(<<"a","b">>), github_stars |-> None]

SearchDocs == {Doc0, Doc1, Doc2, Doc3, Doc4, Doc5, Doc6}

InitSearch ==
    /\ \E docs \in SUBSET SearchDocs :
          /\ Cardinality(docs) <= MaxDocs
          /\ store = TableOf(docs)
    /\ log = <<>>
    /\ assigned = {}
    /\ last = NoCall
    /\ pc = Idle
    /\ loc = Idle
    /\ old_plugin = EmptyDict
    /\ new_plugin = EmptyDict
    /\ merged = EmptyDict
    /\ InitViews

\* one get_search_index() call: rows is the order in which the query hands
\* out the documents
GetSearchIndex ==
    /\ last.op = "none"
    /\ \E rows \in Orders(DOMAIN store) :
          LET plucked == [i \in 1..Len(rows) |-> Pluck(store[rows[i]])]
              plugins == SortByKey(plucked)
              tokens == [i \in 1..Len(rows) |->
                            get_search_tokens_for_plugin(plugins[i])]
          IN  IF \E i \in 1..Len(rows) : ~Negatable(plucked[i])
              THEN /\ index' = Raise("TypeError")
                   /\ last' = [op |-> "get_search_index", rows |-> rows,
                               tokens |-> <<>>]
              ELSE IF \E i \in 1..Len(rows) : tokens[i][1] = "raise"
              THEN /\ index' = Raise("Exception")
                   /\ last' = [op |-> "get_search_index", rows |-> rows,
                               tokens |-> <<>>]
              ELSE /\ \E keywords \in
                          KeywordsChoices([i \in 1..Len(rows) |-> tokens[i][2]]) :
                          index' = Return([i \in 1..Len(rows) |->
                              DictSet(plugins[i], "keywords", keywords[i])])
                   /\ last' = [op |-> "get_search_index", rows |-> rows,
                               tokens |-> [i \in 1..Len(rows) |-> tokens[i][2]]]
    /\ UNCHANGED <<store, log, assigned, pc, loc, tag_counts>>
    /\ UnchangedMerge

NextSearch == GetSearchIndex

SpecSearch == InitSearch /\ [][NextSearch]_vars

\* the dict d without key k
Without(d, k) == [j \in (DOMAIN d) \ {k} |-> d[j]]

\* the ranking key of an entry as the claim states it: popularity, stars and
\* rating, a missing one counted as 0
RankKey(p) ==
    << IF "plugin_manager_users" \in DOMAIN p THEN p["plugin_manager_users"][2] ELSE 0,
       IF "github_stars" \in DOMAIN p THEN p["github_stars"][2] ELSE 0,
       IF "vimorg_rating" \in DOMAIN p THEN p["vimorg_rating"][2] ELSE 0 >>

\* a >= b in the lexicographic order of triples
LexGreaterEq(a, b) ==
    \/ a[1] > b[1]
    \/ a[1] = b[1] /\ a[2] > b[2]
    \/ a[1] = b[1] /\ a[2] = b[2] /\ a[3] >= b[3]

\* C15: the list get_search_index returns has one entry per stored document,
\* each the document's plucked fields plus keywords, and every entry's key
\* (popularity, stars, rating; missing counted as 0) is greater than or equal
\* to the key of the entry after it
C15_SearchRanking ==
    (last.op = "get_search_index" /\ index[1] = "return") =>
        /\ \E f \in Orders(DOMAIN store) :
              /\ Len(index[2]) = Len(f)
              /\ \A i \in 1..Len(f) :
                    Without(index[2][i], "keywords") = Pluck(store[f[i]])
        /\ \A i \in 1..(Len(index[2]) - 1) :
              LexGreaterEq(RankKey(index[2][i]), RankKey(index[2][i + 1]))

\* C15 witness: the three records of the example, with popularity 5, 5, 1,
\* stars 2, 9, 100 and rating 1, 1, 1, come out as record 1, record 0, record 2
C15_Witness ==
    /\ last.op = "get_search_index"
    /\ DOMAIN store = {Doc0["slug"], Doc1["slug"], Doc2["slug"]}
    /\ index[1] = "return"
    /\ Without(index[2][1], "keywords") = Pluck(Doc1)
    /\ Without(index[2][2], "keywords") = Pluck(Doc0)
    /\ Without(index[2][3], "keywords") = Pluck(Doc2)

\* the words of a string as the claim states them: the longest runs of
\* characters that hold no whitespace
Words(s) ==
    {SubSeq(s, w[1], w[2]) :
        w \in {v \in (1..Len(s)) \X (1..Len(s)) :
                  /\ v[1] <= v[2]
                  /\ \A k \in v[1]..v[2] : s[k] \notin Whitespace
                  /\ v[1] = 1 \/ s[v[1] - 1] \in Whitespace
                  /\ v[2] = Len(s) \/ s[v[2] + 1] \in Whitespace}}

\* the tokens the claim expects of one field's value
ExpectedOfValue(value) ==
    CASE value[1] = "str" ->
             {[i \in 1..Len(w) |-> Lower(w[i])] : w \in Words(value[2])}
      [] value[1] = "list" ->
             {[i \in 1..Len(value[2][n][2]) |-> Lower(value[2][n][2][i])] :
                  n \in 1..Len(value[2])}
      [] OTHER -> {}

\* the tokens the claim expects of a plugin
ExpectedTokens(plugin) ==
    UNION {ExpectedOfValue(plugin[f]) :
              f \in {"name", "tags", "author", "vimorg_short_desc",
                     "github_short_desc"} \cap DOMAIN plugin}

\* a stored document holds, in one of the five fields, a value that is not a
\* string, a list or None
Untokenizable(doc) ==
    \E f \in {"name", "tags", "author", "vimorg_short_desc", "github_short_desc"} :
        f \in DOMAIN doc /\ doc[f][1] \notin {"str", "list", "none"}

\* C17: for every entry of a returned index the tokens computed are exactly
\* the lowercased words of its name, author and two short descriptions and
\* the lowercased elements of its tags, and its keywords name each of them
\* once; with a stored value in one of these fields that is not a string, a
\* list or None the call raises and returns nothing
C17_Tokenization ==
    last.op = "get_search_index" =>
        /\ index[1] = "return" =>
              \A i \in 1..Len(index[2]) :
                  /\ last.tokens[i] = ExpectedTokens(Without(index[2][i], "keywords"))
                  /\ LET ks == Split(index[2][i]["keywords"][2])
                     IN  /\ {ks[n] : n \in 1..Len(ks)} = last.tokens[i]
                         /\ Len(ks) = Cardinality(last.tokens[i])
        /\ (\E k \in DOMAIN store : Untokenizable(store[k])) => index[1] = "raise"

\* C17 witness: the index holds an entry with name 'rb  Va' and tags
\* ['B/V', 'va'], whose tokens are 'rb', 'va' and 'b/v'
C17_Witness ==
    /\ last.op = "get_search_index"
    /\ index[1] = "return"
    /\ \E i \in 1..Len(index[2]) :
          /\ Without(index[2][i], "keywords") = Pluck(Doc1)
          /\ last.tokens[i] = {<<"r","b">>, <<"v","a">>, <<"b","/","v">>}

====
